---------------------------- MODULE Spec2Model ----------------------------
(***************************************************************************)
(* A model of correlate_files_per_issue.py: the per-issue aggregation      *)
(* (aggregate_files_per_issue, sum_filesizes_per_issue), the construction  *)
(* of the file co-occurrence graph (correlate_files_with_each_other), the  *)
(* parser of todo lines (process_taskline, with format_todo_entry of       *)
(* retrieve_commits_and_issues.py, which writes the lines) and main; and   *)
(* of main of link_commits_to_issues.py with the Jira server it talks to.  *)
(*                                                                         *)
(* Strings (filenames, dates, issue ids, composite keys) are sequences of  *)
(* character codes and are compared as Python compares str values:         *)
(* lexicographically by code.  array.array("I") values are sequences of    *)
(* naturals and compare the same way.  Python dicts are functions; where   *)
(* the code depends on a dict's iteration order, the insertion order of    *)
(* its keys is kept in a sequence next to it.  File ids are 0-based as in  *)
(* the code; known_files is a 1-based sequence, so the file with id n is   *)
(* known_files[n + 1].                                                     *)
(***************************************************************************)
EXTENDS Integers, Sequences, FiniteSets, TLC

\* ------------------------------------------------------------------ bounds
\* number of issues in the aggregated input of the graph construction
MaxIssues == 2
\* number of distinct filenames that occur in issues below the threshold
NumFiles == 3

\* number of change records handed to the aggregation functions
MaxChanges == 2
\* number of files in the manifest of a todo line
MaxEntries == 2
\* number of lines in the todo files of a run of main
MaxLines == 2
\* number of runs of link_commits_to_issues.py on the same files
MaxRuns == 2

\* ------------------------------------------------------- program constants
\* `if len(files) > 300`
Threshold == 300
\* the ":" of `date + ":" + key`
Colon == 58
\* the " " of `taskline.split(" ", 3)`
Space == 32
\* the "," of `f.split(",")`
Comma == 44
\* the "\n" that ends a line of a todo file, and the "-" of its replacement
Newline == 10
Dash == 45
\* the digit "0"; the digits are the ten codes from it on
Zero == 48

\* ----------------------------------------------------------------- helpers
Range(s) == {s[p] : p \in 1..Len(s)}

EmptyDict == [x \in {} |-> 0]

\* Python's `<` on str, tuple and array.array: lexicographic, a proper prefix
\* is smaller.
LexLess(a, b) ==
    \E p \in 1..Len(b) :
        /\ p - 1 <= Len(a)
        /\ \A q \in 1..(p - 1) : a[q] = b[q]
        /\ \/ p = Len(a) + 1
           \/ p <= Len(a) /\ a[p] < b[p]

\* sorted()/list.sort() on a list of <<key, element>> pairs: a stable sort by
\* key.  Elements are inserted left to right, each after every element whose
\* key is not greater.
RECURSIVE SortPairs(_)
SortPairs(ps) ==
    IF ps = <<>> THEN <<>>
    ELSE LET front == SortPairs(SubSeq(ps, 1, Len(ps) - 1))
             p == ps[Len(ps)]
             n == Cardinality({q \in 1..Len(front) : ~LexLess(p[1], front[q][1])})
         IN  SubSeq(front, 1, n) \o <<p>> \o SubSeq(front, n + 1, Len(front))

\* sorted(s, key=...) where keys[p] is the key of s[p]
SortedByKey(s, keys) ==
    LET ps == SortPairs([p \in 1..Len(s) |-> <<keys[p], s[p]>>])
    IN  [p \in 1..Len(s) |-> ps[p][2]]

\* line 218 without the sort
UnsortedInts(s) == s

\* sorted(s) for a sequence of integers
SortedInts(s) == SortedByKey(s, [p \in 1..Len(s) |-> <<s[p]>>])

\* sorted(s) for a sequence of strings
SortedStrings(s) == SortedByKey(s, s)

\* list(a_set): the elements in some order
RECURSIVE SetToSeq(_)
SetToSeq(S) ==
    IF S = {} THEN <<>>
    ELSE LET x == CHOOSE x \in S : TRUE
         IN  <<x>> \o SetToSeq(S \ {x})

\* The n-th filename: "a", "aa", "b", "ba", ... as character codes.
NameOf(n) == IF n % 2 = 1 THEN <<(n + 1) \div 2>> ELSE <<n \div 2, 1>>

FileNames == {NameOf(n) : n \in 1..NumFiles}

\* ------------------------------------------------------------------- state
VARIABLES
    fn,                     \* the function that runs
    pc,                     \* position in the running function
    result,                 \* its return value, or the exception it raised
    \* correlate_files_with_each_other
    aggregated,             \* aggregated.values(): the file tuples, in dict order
    issuepos,               \* position of `for i, files in enumerate(...)`
    fpos,                   \* position of `for f in files`
    gpos,                   \* position of `for g in files`
    known_files,
    known_files_to_index,
    edges,
    weights,
    edgekeys,               \* insertion order of the keys of edges / weights
    edgecounter,
    edgeindex,
    k,                      \* position of `for k in edges`
    v,                      \* k -> the v of that iteration (edges[k] unsorted)
    w,                      \* k -> the w of that iteration (weights[k] unsorted)
    \* aggregate_files_per_issue, sum_filesizes_per_issue
    changes,                \* the argument: a list of (issue, date, files, sizes)
    cpos,                   \* position of `for i in changes`
    issuedatelatest,
    mapped,
    mappedkeys              \* insertion order of the keys of mapped

aggvars == <<changes, cpos, issuedatelatest, mapped, mappedkeys>>

corrvars == <<aggregated, issuepos, fpos, gpos, known_files,
              known_files_to_index, edges, weights, edgekeys, edgecounter,
              edgeindex, k, v, w>>

VARIABLES
    \* process_taskline
    taskline,               \* the argument: one line of a todo file
    \* main of correlate_files_per_issue.py and of link_commits_to_issues.py
    mpc,                    \* position in main
    args,                   \* the parsed command line
    disk,                   \* the files main reads and appends to
    excluded,
    include_issues,
    stdout,                 \* the lines printed to sys.stdout
    nodelist,               \* the lines printed to the file args.output_nodelist
    edgelist,               \* the lines printed to the file args.output_edgelist
    log,                    \* the records handed to logging
    run,                    \* 1 in the first run over the inputs, 2 in a repeated run
    first,                  \* what the first run printed and how it ended
    \* main of link_commits_to_issues.py
    tasklines,
    tpos,                   \* position of `for taskline in tasklines`
    jira,                   \* the remote links of the issues and the calls that changed them
    linkcache               \* the lru_cache of get_all_links

mainvars == <<mpc, args, disk, excluded, include_issues, stdout, nodelist,
              edgelist, log, run, first>>

linkvars == <<tasklines, tpos, jira, linkcache>>

othervars == <<taskline, mainvars, linkvars>>

vars == <<fn, pc, result, corrvars, aggvars, othervars>>

\* the state of the variables of a function or program that does not run
CorrIdle ==
    /\ aggregated = <<>>
    /\ issuepos = 1
    /\ fpos = 1
    /\ gpos = 1
    /\ known_files = <<>>
    /\ known_files_to_index = EmptyDict
    /\ edges = EmptyDict
    /\ weights = EmptyDict
    /\ edgekeys = <<>>
    /\ edgecounter = EmptyDict
    /\ edgeindex = EmptyDict
    /\ k = 1
    /\ v = EmptyDict
    /\ w = EmptyDict

AggIdle ==
    /\ changes = <<>>
    /\ cpos = 1
    /\ issuedatelatest = EmptyDict
    /\ mapped = EmptyDict
    /\ mappedkeys = <<>>

ParseIdle == taskline = <<>>

MainIdle ==
    /\ mpc = "none"
    /\ args = <<>>
    /\ disk = <<>>
    /\ excluded = {}
    /\ include_issues = {}
    /\ stdout = <<>>
    /\ nodelist = <<>>
    /\ edgelist = <<>>
    /\ log = <<>>
    /\ run = 1
    /\ first = <<>>

LinkIdle ==
    /\ tasklines = <<>>
    /\ tpos = 1
    /\ jira = <<>>
    /\ linkcache = EmptyDict

\* ---------------------------------------- correlate_files_with_each_other
\* The value of one issue as aggregate_files_per_issue builds it: a sorted
\* tuple of distinct filenames.
TupleOf(S) == SortedStrings(SetToSeq(S))

\* An issue with more files than the threshold.
BigIssue == [p \in 1..(Threshold + 1) |-> NameOf(p)]

IssueTuples == {TupleOf(S) : S \in SUBSET FileNames} \cup {BigIssue}

AggregatedInputs == UNION {[1..n -> IssueTuples] : n \in 0..MaxIssues}

\* line 184 with the limit one too high
SkipsIssueAboveNext(files) == Len(files) > Threshold + 1

\* `if len(files) > 300: continue`
SkipsIssue(files) == Len(files) > Threshold

\* line 192 without the test of line 190
FilesWithAlways(kfi, kf, f) == Append(kf, f)

\* known_files after `if f not in known_files_to_index: ... known_files.append(f)`
FilesWith(kfi, kf, f) == IF f \in DOMAIN kfi THEN kf ELSE Append(kf, f)

\* known_files_to_index after
\* `if f not in known_files_to_index: known_files_to_index[f] = len(known_files)`
IndexWith(kfi, kf, f) == IF f \in DOMAIN kfi THEN kfi ELSE kfi @@ (f :> Len(kf))

\* edgecounter after `for target, weight in zip(e, wt): edgecounter[target] = weight`
CounterOf(e, wt) ==
    [t \in Range(e) |->
        wt[CHOOSE p \in 1..Len(e) :
               e[p] = t /\ \A q \in (p + 1)..Len(e) : e[q] # t]]

\* lines 201-203 with every target at index 0
IndexOfFirst(e) == [t \in Range(e) |-> 0]

\* edgeindex after `for i, target in enumerate(e): edgeindex[target] = i`
IndexOf(e) ==
    [t \in Range(e) |->
        (CHOOSE p \in 1..Len(e) :
             e[p] = t /\ \A q \in (p + 1)..Len(e) : e[q] # t) - 1]

CorrInit ==
    /\ fn = "correlate_files_with_each_other"
    /\ ParseIdle
    /\ MainIdle
    /\ LinkIdle
    /\ changes = <<>>
    /\ cpos = 1
    /\ issuedatelatest = EmptyDict
    /\ mapped = EmptyDict
    /\ mappedkeys = <<>>
    /\ aggregated \in AggregatedInputs
    /\ pc = "issues"
    /\ result = <<>>
    /\ issuepos = 1
    /\ fpos = 1
    /\ gpos = 1
    /\ known_files = <<>>
    /\ known_files_to_index = EmptyDict
    /\ edges = EmptyDict
    /\ weights = EmptyDict
    /\ edgekeys = <<>>
    /\ edgecounter = EmptyDict
    /\ edgeindex = EmptyDict
    /\ k = 1
    /\ v = EmptyDict
    /\ w = EmptyDict

\* lines 183-186: an issue above the threshold is skipped
SkipIssue ==
    /\ UNCHANGED <<fn, aggvars, othervars>>
    /\ pc = "issues"
    /\ issuepos <= Len(aggregated)
    /\ SkipsIssue(aggregated[issuepos])
    /\ issuepos' = issuepos + 1
    /\ UNCHANGED <<pc, result, aggregated, fpos, gpos, known_files,
                   known_files_to_index, edges, weights, edgekeys,
                   edgecounter, edgeindex, k, v, w>>

\* lines 183-189: an issue at or below the threshold enters `for f in files`
EnterIssue ==
    /\ UNCHANGED <<fn, aggvars, othervars>>
    /\ pc = "issues"
    /\ issuepos <= Len(aggregated)
    /\ ~SkipsIssue(aggregated[issuepos])
    /\ pc' = "files"
    /\ fpos' = 1
    /\ UNCHANGED <<result, aggregated, issuepos, gpos, known_files,
                   known_files_to_index, edges, weights, edgekeys,
                   edgecounter, edgeindex, k, v, w>>

\* lines 189-203: register f, create its arrays, rebuild the lookup dicts
BeginFile ==
    /\ UNCHANGED <<fn, aggvars, othervars>>
    /\ pc = "files"
    /\ fpos <= Len(aggregated[issuepos])
    /\ LET f == aggregated[issuepos][fpos]
           kfi == IndexWith(known_files_to_index, known_files, f)
           fidx == kfi[f]
           isnew == fidx \notin DOMAIN edges
           e == IF isnew THEN edges @@ (fidx :> <<>>) ELSE edges
           wt == IF isnew THEN weights @@ (fidx :> <<>>) ELSE weights
       IN  /\ known_files' = FilesWith(known_files_to_index, known_files, f)
           /\ known_files_to_index' = kfi
           /\ edges' = e
           /\ weights' = wt
           /\ edgekeys' = IF isnew THEN Append(edgekeys, fidx) ELSE edgekeys
           /\ edgecounter' = CounterOf(e[fidx], wt[fidx])
           /\ edgeindex' = IndexOf(e[fidx])
    /\ pc' = "targets"
    /\ gpos' = 1
    /\ UNCHANGED <<result, aggregated, issuepos, fpos, k, v, w>>

\* lines 204-214: one iteration of `for g in files`
Target ==
    /\ UNCHANGED <<fn, aggvars, othervars>>
    /\ pc = "targets"
    /\ gpos <= Len(aggregated[issuepos])
    /\ LET f == aggregated[issuepos][fpos]
           g == aggregated[issuepos][gpos]
           fidx == known_files_to_index[f]
           kfi == IndexWith(known_files_to_index, known_files, g)
           gidx == kfi[g]
       IN  /\ known_files' = FilesWith(known_files_to_index, known_files, g)
           /\ known_files_to_index' = kfi
           /\ IF gidx \notin DOMAIN edgecounter
              THEN /\ edges' = [edges EXCEPT ![fidx] = Append(@, gidx)]
                   /\ weights' = [weights EXCEPT ![fidx] = Append(@, 1)]
                   /\ edgecounter' = edgecounter @@ (gidx :> 1)
                   /\ gpos' = gpos + 1
                   /\ UNCHANGED <<pc, result>>
              ELSE IF gidx \in DOMAIN edgeindex
              THEN /\ weights' = [weights EXCEPT
                                    ![fidx][edgeindex[gidx] + 1] = @ + 1]
                   /\ edgecounter' = [edgecounter EXCEPT ![gidx] = @ + 1]
                   /\ gpos' = gpos + 1
                   /\ UNCHANGED <<pc, result, edges>>
              ELSE \* edgeindex[gidx] raises KeyError
                   /\ pc' = "error"
                   /\ result' = "KeyError"
                   /\ UNCHANGED <<edges, weights, edgecounter, gpos>>
    /\ UNCHANGED <<aggregated, issuepos, fpos, edgekeys, edgeindex, k, v, w>>

\* `for g in files` is exhausted: next f
EndFile ==
    /\ UNCHANGED <<fn, aggvars, othervars>>
    /\ pc = "targets"
    /\ gpos > Len(aggregated[issuepos])
    /\ pc' = "files"
    /\ fpos' = fpos + 1
    /\ UNCHANGED <<result, aggregated, issuepos, gpos, known_files,
                   known_files_to_index, edges, weights, edgekeys,
                   edgecounter, edgeindex, k, v, w>>

\* `for f in files` is exhausted: next issue
EndIssue ==
    /\ UNCHANGED <<fn, aggvars, othervars>>
    /\ pc = "files"
    /\ fpos > Len(aggregated[issuepos])
    /\ pc' = "issues"
    /\ issuepos' = issuepos + 1
    /\ UNCHANGED <<result, aggregated, fpos, gpos, known_files,
                   known_files_to_index, edges, weights, edgekeys,
                   edgecounter, edgeindex, k, v, w>>

\* the loop over the issues is exhausted: line 215
EndIssues ==
    /\ UNCHANGED <<fn, aggvars, othervars>>
    /\ pc = "issues"
    /\ issuepos > Len(aggregated)
    /\ pc' = "sort"
    /\ k' = 1
    /\ UNCHANGED <<result, aggregated, issuepos, fpos, gpos, known_files,
                   known_files_to_index, edges, weights, edgekeys,
                   edgecounter, edgeindex, v, w>>

\* line 219: sorted(w, key=lambda x: edges[x]), `es` being the dict edges at
\* that point.  The key of a weight x is the array edges[x].
SortedWeights(wk, es) == SortedByKey(wk, [p \in 1..Len(wk) |-> es[wk[p]]])

\* lines 216-219: one iteration of `for k in edges`.  edges[k] is replaced
\* first; the key function of line 219 then reads the dict edges with a weight
\* as its key, which raises KeyError when no node has that id.
SortNode ==
    /\ UNCHANGED <<fn, aggvars, othervars>>
    /\ pc = "sort"
    /\ k <= Len(edgekeys)
    /\ LET key == edgekeys[k]
           es == [edges EXCEPT ![key] = SortedInts(edges[key])]
       IN  /\ v' = v @@ (key :> edges[key])
           /\ w' = w @@ (key :> weights[key])
           /\ edges' = es
           /\ IF Range(weights[key]) \subseteq DOMAIN es
              THEN /\ weights' = [weights EXCEPT
                                    ![key] = SortedWeights(weights[key], es)]
                   /\ k' = k + 1
                   /\ UNCHANGED <<pc, result>>
              ELSE /\ pc' = "error"
                   /\ result' = "KeyError"
                   /\ UNCHANGED <<weights, k>>
    /\ UNCHANGED <<aggregated, issuepos, fpos, gpos, known_files,
                   known_files_to_index, edgekeys, edgecounter, edgeindex>>

\* sorted(list(d.items())) for a dict with integer keys
SortedItems(d, order) ==
    SortedByKey([p \in 1..Len(order) |-> <<order[p], d[order[p]]>>],
                [p \in 1..Len(order) |-> <<order[p]>>])

\* line 220
Return ==
    /\ UNCHANGED <<fn, aggvars, othervars>>
    /\ pc = "sort"
    /\ k > Len(edgekeys)
    /\ result' = <<known_files, SortedItems(edges, edgekeys),
                   SortedItems(weights, edgekeys)>>
    /\ pc' = "done"
    /\ UNCHANGED <<aggregated, issuepos, fpos, gpos, known_files,
                   known_files_to_index, edges, weights, edgekeys,
                   edgecounter, edgeindex, k, v, w>>

Next ==
    \/ SkipIssue
    \/ EnterIssue
    \/ BeginFile
    \/ Target
    \/ EndFile
    \/ EndIssue
    \/ EndIssues
    \/ SortNode
    \/ Return

Init == CorrInit

Spec == Init /\ [][Next]_vars

\* ------------------ aggregate_files_per_issue and sum_filesizes_per_issue
\* Issue ids, dates ("09" and "10": dates of one length, ordered as strings)
\* and the filenames and sizes of the change records.
IssueIds == {<<1>>, <<2>>}

Dates == {<<0, 9>>, <<1, 0>>}

RecordFileNames == {NameOf(1), NameOf(2)}

Sizes == {1, 2}

\* the file tuples of a record: distinct filenames in any order
RecordFiles ==
    {fs \in UNION {[1..n -> RecordFileNames] : n \in 0..Cardinality(RecordFileNames)} :
        \A p, q \in 1..Len(fs) : p # q => fs[p] # fs[q]}

\* (issue, date, files, sizes), sizes paired with files by position
ChangeRecords ==
    UNION {{<<issue, date, fs, sz>> : issue \in IssueIds, date \in Dates,
                                      sz \in [1..Len(fs) -> Sizes]} :
           fs \in RecordFiles}

ChangesInputs == UNION {[1..n -> ChangeRecords] : n \in 0..MaxChanges}

\* line 105/134 without the comparison of line 104/133: the last date wins
LatestWithLast(idl, issue, date) ==
    IF issue \notin DOMAIN idl THEN idl @@ (issue :> date)
    ELSE [idl EXCEPT ![issue] = date]

\* issuedatelatest after
\* `if issue not in issuedatelatest or issuedatelatest[issue] < date: ...`
LatestWith(idl, issue, date) ==
    IF issue \notin DOMAIN idl THEN idl @@ (issue :> date)
    ELSE IF LexLess(idl[issue], date) THEN [idl EXCEPT ![issue] = date]
    ELSE idl

\* line 136 without the test of line 135: the set starts empty at each record
FilesAddedFresh(mp, issue, files) ==
    IF issue \notin DOMAIN mp THEN mp @@ (issue :> Range(files))
    ELSE [mp EXCEPT ![issue] = Range(files)]

\* mapped after `if issue not in mapped: mapped[issue] = set()` and
\* `for f in files: mapped[issue].add(f)`
FilesAdded(mp, issue, files) ==
    IF issue \notin DOMAIN mp THEN mp @@ (issue :> Range(files))
    ELSE [mp EXCEPT ![issue] = @ \cup Range(files)]

RECURSIVE SumOf(_)
SumOf(s) == IF s = <<>> THEN 0 ELSE s[1] + SumOf(Tail(s))

\* line 107 without the test of line 106: the sum starts at 0 at each record
SizesAddedFresh(mp, issue, sizes) ==
    IF issue \notin DOMAIN mp THEN mp @@ (issue :> SumOf(sizes))
    ELSE [mp EXCEPT ![issue] = SumOf(sizes)]

\* mapped after `if issue not in mapped: mapped[issue] = 0` and
\* `for s in sizes: mapped[issue] += s`
SizesAdded(mp, issue, sizes) ==
    IF issue \notin DOMAIN mp THEN mp @@ (issue :> SumOf(sizes))
    ELSE [mp EXCEPT ![issue] = @ + SumOf(sizes)]

\* list(value) of a set: its elements once each, in an order that depends on
\* the hash seed of the interpreter
Enumerations(S) == {s \in [1..Cardinality(S) -> S] : Range(s) = S}

\* line 140 for every key of mapped: one enumeration of each set
Listings(mp) ==
    {l \in [DOMAIN mp -> UNION {Enumerations(mp[key]) : key \in DOMAIN mp}] :
        \A key \in DOMAIN mp : l[key] \in Enumerations(mp[key])}

\* lines 140-142 without the sort of line 141
ListedValues(listed) == listed

\* lines 139-142: every value of mapped becomes a sorted tuple
SortedValues(listed) == [key \in DOMAIN listed |-> SortedStrings(listed[key])]

\* date + ":" + key
CompositeKey(date, key) == date \o <<Colon>> \o key

\* the assignments `withdate[date + ":" + key] = value`, in the order of
\* mapped.items()
WithDateItems(idl, mp, order) ==
    [p \in 1..Len(order) |-> <<CompositeKey(idl[order[p]], order[p]), mp[order[p]]>>]

\* the elements of a sequence in the order of their first occurrence
RECURSIVE FirstSeen(_)
FirstSeen(s) ==
    IF s = <<>> THEN <<>>
    ELSE LET front == FirstSeen(SubSeq(s, 1, Len(s) - 1))
         IN  IF s[Len(s)] \in Range(front) THEN front
             ELSE Append(front, s[Len(s)])

\* the dict built by a sequence of assignments d[key] = value: the insertion
\* order of its keys and the value last assigned to each
DictOf(items) ==
    <<FirstSeen([p \in 1..Len(items) |-> items[p][1]]),
      [key \in {items[p][1] : p \in 1..Len(items)} |->
          items[CHOOSE p \in 1..Len(items) :
                    /\ items[p][1] = key
                    /\ \A q \in (p + 1)..Len(items) : items[q][1] # key][2]]>>

\* dict.items() of a dict given as <<key order, function>>
ItemsOf(d) == [p \in 1..Len(d[1]) |-> <<d[1][p], d[2][d[1][p]]>>]

\* sorted(withdate.items()): tuples compare by their first component, the
\* key, and no two items of a dict have the same key
SortedByCompositeKey(items) ==
    SortedByKey(items, [p \in 1..Len(items) |-> items[p][1]])

AggInit ==
    /\ fn \in {"aggregate_files_per_issue", "sum_filesizes_per_issue"}
    /\ ParseIdle
    /\ MainIdle
    /\ LinkIdle
    /\ changes \in ChangesInputs
    /\ pc = "changes"
    /\ result = <<>>
    /\ cpos = 1
    /\ issuedatelatest = EmptyDict
    /\ mapped = EmptyDict
    /\ mappedkeys = <<>>
    /\ aggregated = <<>>
    /\ issuepos = 1
    /\ fpos = 1
    /\ gpos = 1
    /\ known_files = <<>>
    /\ known_files_to_index = EmptyDict
    /\ edges = EmptyDict
    /\ weights = EmptyDict
    /\ edgekeys = <<>>
    /\ edgecounter = EmptyDict
    /\ edgeindex = EmptyDict
    /\ k = 1
    /\ v = EmptyDict
    /\ w = EmptyDict

\* lines 128-138: one iteration of `for i in changes`
AggregateChange ==
    /\ fn = "aggregate_files_per_issue"
    /\ pc = "changes"
    /\ cpos <= Len(changes)
    /\ LET issue == changes[cpos][1]
           date == changes[cpos][2]
           files == changes[cpos][3]
       IN  /\ issuedatelatest' = LatestWith(issuedatelatest, issue, date)
           /\ mapped' = FilesAdded(mapped, issue, files)
           /\ mappedkeys' = IF issue \in DOMAIN mapped THEN mappedkeys
                            ELSE Append(mappedkeys, issue)
    /\ cpos' = cpos + 1
    /\ UNCHANGED <<fn, pc, result, changes, corrvars,
                   othervars>>

\* lines 139-148
AggregateReturn ==
    /\ fn = "aggregate_files_per_issue"
    /\ pc = "changes"
    /\ cpos > Len(changes)
    /\ \E listed \in Listings(mapped) :
          /\ mapped' = SortedValues(listed)
          /\ result' = DictOf(WithDateItems(issuedatelatest, mapped', mappedkeys))
    /\ pc' = "done"
    /\ UNCHANGED <<fn, changes, cpos, issuedatelatest, mappedkeys, corrvars,
                   othervars>>

\* lines 99-109: one iteration of `for i in changes`
SumChange ==
    /\ fn = "sum_filesizes_per_issue"
    /\ pc = "changes"
    /\ cpos <= Len(changes)
    /\ LET issue == changes[cpos][1]
           date == changes[cpos][2]
           sizes == changes[cpos][4]
       IN  /\ issuedatelatest' = LatestWith(issuedatelatest, issue, date)
           /\ mapped' = SizesAdded(mapped, issue, sizes)
           /\ mappedkeys' = IF issue \in DOMAIN mapped THEN mappedkeys
                            ELSE Append(mappedkeys, issue)
    /\ cpos' = cpos + 1
    /\ UNCHANGED <<fn, pc, result, changes, corrvars,
                   othervars>>

\* lines 111-115
SumReturn ==
    /\ fn = "sum_filesizes_per_issue"
    /\ pc = "changes"
    /\ cpos > Len(changes)
    /\ result' = SortedByCompositeKey(
                     ItemsOf(DictOf(WithDateItems(issuedatelatest, mapped,
                                                  mappedkeys))))
    /\ pc' = "done"
    /\ UNCHANGED <<fn, changes, cpos, issuedatelatest, mapped, mappedkeys,
                   corrvars, othervars>>

AggNext ==
    \/ AggregateChange
    \/ AggregateReturn
    \/ SumChange
    \/ SumReturn

SpecAgg == AggInit /\ [][AggNext]_vars


\* --------------------------------- format_todo_entry / process_taskline
\* str.split(sep): the position of the first occurrence of sep in s, or 0
FindSep(s, sep) ==
    LET at == {p \in 1..(Len(s) - Len(sep) + 1) :
                  SubSeq(s, p, p + Len(sep) - 1) = sep}
    IN  IF at = {} THEN 0 ELSE CHOOSE p \in at : \A q \in at : p <= q

\* s.split(sep, n): at most n splits, empty pieces are kept
RECURSIVE SplitMax(_, _, _)
SplitMax(s, sep, n) ==
    LET p == FindSep(s, sep)
    IN  IF n = 0 \/ p = 0 THEN <<s>>
        ELSE <<SubSeq(s, 1, p - 1)>> \o
             SplitMax(SubSeq(s, p + Len(sep), Len(s)), sep, n - 1)

\* s.split(sep)
Split(s, sep) == SplitMax(s, sep, Len(s))

\* sep.join(pieces)
RECURSIVE Join(_, _)
Join(sep, pieces) ==
    IF pieces = <<>> THEN <<>>
    ELSE IF Len(pieces) = 1 THEN pieces[1]
    ELSE pieces[1] \o sep \o Join(sep, Tail(pieces))

IsDigit(c) == c \in Zero..(Zero + 9)

\* int(s) succeeds: the strings the model hands to int() have no sign, no
\* blank and no underscore, so they are integers when they are digits only
IsInt(s) == s # <<>> /\ \A p \in 1..Len(s) : IsDigit(s[p])

\* int(s) for a string of digits
RECURSIVE IntOf(_)
IntOf(s) ==
    IF s = <<>> THEN 0
    ELSE 10 * IntOf(SubSeq(s, 1, Len(s) - 1)) + (s[Len(s)] - Zero)

\* str(n) for a natural number
RECURSIVE StrOf(_)
StrOf(n) == IF n < 10 THEN <<Zero + n>> ELSE StrOf(n \div 10) \o <<Zero + (n % 10)>>

\* message.replace(b'\n', b'---')
RECURSIVE ReplaceNewlines(_)
ReplaceNewlines(m) ==
    IF m = <<>> THEN <<>>
    ELSE (IF m[1] = Newline THEN <<Dash, Dash, Dash>> ELSE <<m[1]>>) \o
         ReplaceNewlines(Tail(m))

\* format_todo_entry: e.manifest is `files is not None`; the sizes are always
\* given when the files are (lines 248-250)
FormatTodoEntry(e) ==
    IF e.manifest
    THEN Join(<<Space>>,
              <<e.commit, e.issue, e.date,
                <<Colon>> \o
                Join(<<Colon>>,
                     [p \in 1..Len(e.files) |->
                         Join(<<Comma>>, <<e.files[p], StrOf(e.sizes[p])>>)]) \o
                <<Colon>>,
                ReplaceNewlines(e.message)>>)
    ELSE Join(<<Space>>, <<e.commit, e.issue, e.date, ReplaceNewlines(e.message)>>)

\* the line of the todo file: lines 250 and 256 of retrieve_commits_and_issues.py
LineOf(e) == FormatTodoEntry(e) \o <<Newline>>

ManifestFilesFirstComponent(files_string) ==
    LET entries == Tail(Split(files_string, <<Colon>>))
    IN  [p \in 1..Len(entries) |-> Split(entries[p], <<Comma>>)[1]]

\* lines 76 and 82: the filenames of the manifest
ManifestFiles(files_string) ==
    LET entries == Tail(Split(files_string, <<Colon>>))
    IN  [p \in 1..Len(entries) |->
            LET parts == Split(entries[p], <<Comma>>)
            IN  Join(<<Comma>>, SubSeq(parts, 1, Len(parts) - 1))]

\* lines 76-81: the sizes of the manifest, all 0 when int() raises ValueError
ManifestSizes(files_string) ==
    LET entries == Tail(Split(files_string, <<Colon>>))
        last == [p \in 1..Len(entries) |->
                    LET parts == Split(entries[p], <<Comma>>)
                    IN  parts[Len(parts)]]
    IN  IF \A p \in 1..Len(entries) : IsInt(last[p])
        THEN [p \in 1..Len(entries) |-> IntOf(last[p])]
        ELSE [p \in 1..Len(entries) |-> 0]

\* lines 71 and 72: an unpacking assignment gets too few values
ProcessTasklineRaises(line) ==
    \/ Len(SplitMax(line, <<Space>>, 3)) # 4
    \/ Len(SplitMax(SplitMax(line, <<Space>>, 3)[4], <<Colon, Space>>, 1)) # 2

\* lines 78-80: int() raises ValueError on the manifest of the line, which
\* process_taskline reports with logging.warn
SizeParseFails(line) ==
    LET files_string == SplitMax(SplitMax(line, <<Space>>, 3)[4],
                                 <<Colon, Space>>, 1)[1]
        entries == Tail(Split(files_string, <<Colon>>))
    IN  /\ files_string # <<Colon>>
        /\ \E p \in 1..Len(entries) :
               LET parts == Split(entries[p], <<Comma>>)
               IN  ~IsInt(parts[Len(parts)])

\* the records process_taskline hands to logging for a line
TasklineLog(line) ==
    IF ProcessTasklineRaises(line) THEN <<>>
    ELSE IF SizeParseFails(line) THEN <<"warning: Unparseable file name in taskline">>
    ELSE <<>>

\* process_taskline of correlate_files_per_issue.py: the returned tuple, or
\* "ValueError" when one of the two unpacking assignments (lines 71, 72) gets
\* too few values.  shorttitle is computed and not returned.
ProcessTaskline(line) ==
    LET fields == SplitMax(line, <<Space>>, 3)
    IN  IF Len(fields) # 4 THEN "ValueError"
        ELSE LET rest == SplitMax(fields[4], <<Colon, Space>>, 1)
             IN  IF Len(rest) # 2 THEN "ValueError"
                 ELSE IF rest[1] = <<Colon>>
                 THEN <<fields[2], fields[3], <<>>, <<>>>>
                 ELSE <<fields[2], fields[3], ManifestFiles(rest[1]),
                        ManifestSizes(rest[1])>>

\* The entries a todo file is written from.  Filenames: "a", one with a comma
\* ("a,a") and one with a colon ("a:a"); messages: one line, one with ": " in
\* it, two lines, and one with ":" and ": " in it; sizes of one and of two
\* digits.
Commits == {<<7>>}

EntryFileNames == {<<1>>, <<1, Comma, 1>>, <<1, Colon, 1>>}

EntrySizes == {0, 12}

Messages == {<<3, Space, 4, Newline>>,
             <<3, Colon, Space, 4, Newline>>,
             <<3, Newline, 4, Newline>>,
             <<3, Colon, 4, Colon, Space, 5, Newline>>}

EntryFiles ==
    {t \in UNION {[1..n -> EntryFileNames] : n \in 0..MaxEntries} :
        \A p, q \in 1..Len(t) : p # q => t[p] # t[q]}

Entries ==
    UNION {{[commit |-> c, issue |-> i, date |-> d, message |-> m,
             manifest |-> TRUE, files |-> t, sizes |-> z] :
               c \in Commits, i \in IssueIds, d \in Dates, m \in Messages,
               z \in [1..Len(t) -> EntrySizes]} : t \in EntryFiles}
    \cup {[commit |-> c, issue |-> i, date |-> d, message |-> m,
           manifest |-> FALSE, files |-> <<>>, sizes |-> <<>>] :
             c \in Commits, i \in IssueIds, d \in Dates, m \in Messages}

ParseInit ==
    /\ fn = "process_taskline"
    /\ taskline \in {LineOf(e) : e \in Entries}
    /\ pc = "taskline"
    /\ result = <<>>
    /\ CorrIdle
    /\ AggIdle
    /\ MainIdle
    /\ LinkIdle

\* lines 71-88
DoProcessTaskline ==
    /\ fn = "process_taskline"
    /\ pc = "taskline"
    /\ result' = ProcessTaskline(taskline)
    /\ pc' = IF ProcessTaskline(taskline) = "ValueError" THEN "error" ELSE "done"
    /\ log' = log \o TasklineLog(taskline)
    /\ UNCHANGED <<fn, taskline, corrvars, aggvars, linkvars, mpc, args, disk,
                   excluded, include_issues, stdout, nodelist, edgelist, run,
                   first>>

ParseNext == DoProcessTaskline

SpecParse == ParseInit /\ [][ParseNext]_vars

\* ------------------------------------ main of correlate_files_per_issue.py
\* The todo lines the runs of main read: two changes of issue 1 (the later
\* date first, files out of order), a change of issue 2 to one file, a change
\* of issue 2 with an empty manifest, and a line written without files.
\* A todo file can also hold an empty line.
TodoEntries ==
    {[commit |-> <<7>>, issue |-> <<1>>, date |-> <<1, 0>>,
      message |-> <<3, Space, 4, Newline>>, manifest |-> TRUE,
      files |-> <<NameOf(2), NameOf(1)>>, sizes |-> <<12, 0>>],
     [commit |-> <<8>>, issue |-> <<1>>, date |-> <<0, 9>>,
      message |-> <<3, Colon, Space, 4, Newline>>, manifest |-> TRUE,
      files |-> <<NameOf(3), NameOf(1)>>, sizes |-> <<1, 2>>],
     [commit |-> <<9>>, issue |-> <<2>>, date |-> <<0, 9>>,
      message |-> <<3, Space, 4, Newline>>, manifest |-> TRUE,
      files |-> <<NameOf(3)>>, sizes |-> <<5>>],
     [commit |-> <<6>>, issue |-> <<2>>, date |-> <<1, 0>>,
      message |-> <<5, Newline>>, manifest |-> TRUE,
      files |-> <<>>, sizes |-> <<>>],
     [commit |-> <<5>>, issue |-> <<2>>, date |-> <<1, 0>>,
      message |-> <<3, Space, 4, Newline>>, manifest |-> FALSE,
      files |-> <<>>, sizes |-> <<>>]}

\* the lines read_todo yields: the lines written from the entries, and an
\* empty line
TodoLines == {LineOf(e) : e \in TodoEntries} \cup {<<Newline>>}

\* the lines of the todo files, no line twice
LineSeqs ==
    {ls \in UNION {[1..n -> TodoLines] : n \in 0..MaxLines} :
        \A p, q \in 1..Len(ls) : p # q => ls[p] # ls[q]}

\* args.todofiles and the files it names: the lines in one file, or the first
\* line in one file and the others in a second
TodoDisks ==
    {"todo1" :> ls : ls \in LineSeqs} \cup
    {("todo1" :> <<ls[1]>>) @@ ("todo2" :> Tail(ls)) :
        ls \in {x \in LineSeqs : Len(x) >= 2}}

TodoFilesOf(d) == IF "todo2" \in DOMAIN d THEN <<"todo1", "todo2">> ELSE <<"todo1">>

\* the exclude file: missing, holding the first todo line, or holding that
\* line without its end and the line of issue 2
ExcludeDisks ==
    {EmptyDict,
     "exclude" :> <<LineOf(CHOOSE e \in TodoEntries : e.commit = <<7>>)>>,
     "exclude" :> <<LineOf(CHOOSE e \in TodoEntries : e.commit = <<9>>),
                    FormatTodoEntry(CHOOSE e \in TodoEntries : e.commit = <<7>>)>>}

\* the include-issues file: missing, naming issue 1, or naming issue 2 between
\* blanks
IncludeDisks ==
    {EmptyDict,
     "include" :> <<<<1, Newline>>>>,
     "include" :> <<<<Space, 2, Space, Newline>>>>}

\* the command lines: no command, each command, all three; the output files
\* are named or not with --file-connections alone
Commands ==
    {[count_files_per_issue |-> c, sum_filesizes_per_issue |-> s,
      file_connections |-> g, output_nodelist |-> n, output_edgelist |-> e] :
        c, s, g \in BOOLEAN, n \in {"", "nodelist"}, e \in {"", "edgelist"}}

CommandInputs ==
    {c \in Commands :
        /\ c.count_files_per_issue = c.sum_filesizes_per_issue
        /\ (c.count_files_per_issue => c.file_connections)
        /\ (c.count_files_per_issue => c.output_nodelist = "" /\ c.output_edgelist = "")
        /\ (~c.file_connections => c.output_nodelist = "" /\ c.output_edgelist = "")}
    \cup
    {c \in Commands :
        /\ c.count_files_per_issue # c.sum_filesizes_per_issue
        /\ ~c.file_connections
        /\ c.output_nodelist = ""
        /\ c.output_edgelist = ""}

ArgsOf(c, todofiles, include) ==
    [todofiles |-> todofiles, exclude_file |-> "exclude",
     include_issues_file |-> include,
     count_files_per_issue |-> c.count_files_per_issue,
     sum_filesizes_per_issue |-> c.sum_filesizes_per_issue,
     file_connections |-> c.file_connections,
     output_nodelist |-> c.output_nodelist,
     output_edgelist |-> c.output_edgelist]

\* str.strip(): blanks and line ends removed at both ends
RECURSIVE Strip(_)
Strip(s) ==
    IF s = <<>> THEN s
    ELSE IF s[1] \in {Space, Newline} THEN Strip(Tail(s))
    ELSE IF s[Len(s)] \in {Space, Newline} THEN Strip(SubSeq(s, 1, Len(s) - 1))
    ELSE s

\* the lines of the files of a list, in order
RECURSIVE LinesOf(_, _)
LinesOf(d, names) ==
    IF names = <<>> THEN <<>> ELSE d[names[1]] \o LinesOf(d, Tail(names))

\* lines 241-243 without the test of line 243
NotExcludedNone(ex, lines) == lines

\* `if not i in excluded`
NotExcluded(ex, lines) == SelectSeq(lines, LAMBDA l : l \notin ex)

\* lines 245-250
Filtered(ch, include) == SelectSeq(ch, LAMBDA i : i[1] \in include)

\* count_files_per_issue: (key, len(v)) in the order of aggregated.items()
CountFilesPerIssue(d) == [p \in 1..Len(d[1]) |-> <<d[1][p], Len(d[2][d[1][p]])>>]

\* count.sort() without effect
UnsortedCount(count) == count

\* count.sort(): tuples (key, integer) compare by the key first, and no two
\* have the same key
SortedCount(count) == SortedByCompositeKey(count)

\* print(i[0] + " " + str(i[1])) for i in count
CountLines(count) ==
    [p \in 1..Len(count) |-> count[p][1] \o <<Space>> \o StrOf(count[p][2])]

\* "Id Label", "------", "Source Target Weight"
IdLabel == <<73, 100, Space, 76, 97, 98, 101, 108>>

Dashes == <<Dash, Dash, Dash, Dash, Dash, Dash>>

SourceTargetWeight ==
    <<83, 111, 117, 114, 99, 101, Space, 84, 97, 114, 103, 101, 116, Space,
      87, 101, 105, 103, 104, 116>>

\* lines 267-269: the header and print(i, f) for i, f in enumerate(all_files)
NodeLines(all_files) ==
    <<IdLabel>> \o
    [i \in 1..Len(all_files) |-> StrOf(i - 1) \o <<Space>> \o all_files[i]]

\* lines 274-276 for the items from position p on: `source` is the one of the
\* weights item, zip stops at the shorter of targets and weights
RECURSIVE EdgeLinesFrom(_, _, _)
EdgeLinesFrom(es, ws, p) ==
    IF p > Len(es) \/ p > Len(ws) THEN <<>>
    ELSE LET source == ws[p][1]
             targets == es[p][2]
             wts == ws[p][2]
             n == IF Len(targets) < Len(wts) THEN Len(targets) ELSE Len(wts)
         IN  [q \in 1..n |-> StrOf(source) \o <<Space>> \o StrOf(targets[q])
                              \o <<Space>> \o StrOf(wts[q])]
             \o EdgeLinesFrom(es, ws, p + 1)

\* lines 273-276
EdgeLines(es, ws) == <<SourceTargetWeight>> \o EdgeLinesFrom(es, ws, 1)

MainInit ==
    /\ fn = "main"
    /\ pc = "main"
    /\ result = <<>>
    /\ CorrIdle
    /\ AggIdle
    /\ ParseIdle
    /\ LinkIdle
    /\ mpc = "exclude"
    /\ \E c \in CommandInputs, t \in TodoDisks, x \in ExcludeDisks :
          \/ /\ args = ArgsOf(c, TodoFilesOf(t), "")
             /\ disk = t @@ x
          \/ \E i \in IncludeDisks :
                /\ args = ArgsOf(c, TodoFilesOf(t), "include")
                /\ disk = t @@ x @@ i
    /\ excluded = {}
    /\ include_issues = {}
    /\ stdout = <<>>
    /\ nodelist = <<>>
    /\ edgelist = <<>>
    /\ log = <<>>
    /\ run = 1
    /\ first = <<>>

\* lines 224-228
ReadExclude ==
    /\ mpc = "exclude"
    /\ IF args.exclude_file \in DOMAIN disk
       THEN /\ excluded' = Range(disk[args.exclude_file])
            /\ log' = log
       ELSE /\ excluded' = {}
            /\ log' = Append(log, "warning: Exclude file not found")
    /\ mpc' = "include"
    /\ UNCHANGED <<fn, pc, result, corrvars, aggvars, taskline, linkvars, args,
                   disk, include_issues, stdout, nodelist, edgelist, run, first>>

\* lines 230-237
ReadIncludeIssues ==
    /\ mpc = "include"
    /\ IF args.include_issues_file = ""
       THEN UNCHANGED <<include_issues, log>>
       ELSE IF args.include_issues_file \in DOMAIN disk
       THEN /\ include_issues' =
                   {Strip(line) : line \in Range(disk[args.include_issues_file])}
            /\ log' = log
       ELSE /\ include_issues' = {}
            /\ log' = Append(log, "warning: Include issues file not found")
    /\ mpc' = "todo"
    /\ UNCHANGED <<fn, pc, result, corrvars, aggvars, taskline, linkvars, args,
                   disk, excluded, stdout, nodelist, edgelist, run, first>>

\* lines 241-243 with no line raising
RaisingLinesNone(lines) == {}

\* the lines on which process_taskline raises ValueError in the list
\* comprehension of lines 241-243
RaisingLines(lines) == {p \in 1..Len(lines) : ProcessTasklineRaises(lines[p])}

\* lines 239-243: every line of every todo file that is not excluded is
\* parsed; main ends with the ValueError of process_taskline
ReadTodos ==
    /\ mpc = "todo"
    /\ LET lines == NotExcluded(excluded, LinesOf(disk, args.todofiles))
           bad == RaisingLines(lines)
       IN  IF bad = {}
           THEN /\ changes' = [p \in 1..Len(lines) |-> ProcessTaskline(lines[p])]
                /\ log' = log \o LinesOf([p \in 1..Len(lines) |-> TasklineLog(lines[p])],
                                         [p \in 1..Len(lines) |-> p])
                /\ mpc' = "filter"
                /\ UNCHANGED result
           ELSE /\ result' = "ValueError"
                /\ mpc' = "raised"
                /\ UNCHANGED <<changes, log>>
    /\ UNCHANGED <<fn, pc, corrvars, cpos, issuedatelatest, mapped, mappedkeys,
                   taskline, linkvars, args, disk, excluded, include_issues,
                   stdout, nodelist, edgelist, run, first>>

\* lines 245-250
FilterIncluded ==
    /\ mpc = "filter"
    /\ changes' = IF args.include_issues_file # ""
                  THEN Filtered(changes, include_issues)
                  ELSE changes
    /\ mpc' = "command"
    /\ UNCHANGED <<fn, pc, result, corrvars, cpos, issuedatelatest, mapped,
                   mappedkeys, taskline, linkvars, args, disk, excluded,
                   include_issues, stdout, nodelist, edgelist, log, run, first>>

\* the call of aggregate_files_per_issue(changes) or of
\* sum_filesizes_per_issue(changes): lines 253-254, 259 and 266
CallWith(f, position) ==
    /\ fn' = f
    /\ pc' = "changes"
    /\ mpc' = position
    /\ UNCHANGED <<result, corrvars, aggvars, taskline, linkvars, args, disk,
                   excluded, include_issues, stdout, nodelist, edgelist, log,
                   run, first>>

\* line 252
CountCommand ==
    /\ mpc = "command"
    /\ args.count_files_per_issue
    /\ CallWith("aggregate_files_per_issue", "count")

\* lines 253-257, after aggregate_files_per_issue has returned
PrintCounts ==
    /\ mpc = "count"
    /\ pc = "done"
    /\ stdout' = stdout \o CountLines(SortedCount(CountFilesPerIssue(result)))
    /\ mpc' = "returned"
    /\ fn' = "main"
    /\ pc' = "main"
    /\ UNCHANGED <<result, corrvars, aggvars, taskline, linkvars, args, disk,
                   excluded, include_issues, nodelist, edgelist, log, run, first>>

\* line 258
SumCommand ==
    /\ mpc = "command"
    /\ ~args.count_files_per_issue
    /\ args.sum_filesizes_per_issue
    /\ CallWith("sum_filesizes_per_issue", "sum")

\* lines 259-262, after sum_filesizes_per_issue has returned
PrintSums ==
    /\ mpc = "sum"
    /\ pc = "done"
    /\ stdout' = stdout \o CountLines(SortedCount(result))
    /\ mpc' = "returned"
    /\ fn' = "main"
    /\ pc' = "main"
    /\ UNCHANGED <<result, corrvars, aggvars, taskline, linkvars, args, disk,
                   excluded, include_issues, nodelist, edgelist, log, run, first>>

\* lines 263-266: the output files are opened (and so emptied), then
\* aggregate_files_per_issue is called
ConnectionsCommand ==
    /\ mpc = "command"
    /\ ~args.count_files_per_issue
    /\ ~args.sum_filesizes_per_issue
    /\ args.file_connections
    /\ CallWith("aggregate_files_per_issue", "aggregate")

\* line 266: correlate_files_with_each_other is called with the dict that
\* aggregate_files_per_issue returned
Correlate ==
    /\ mpc = "aggregate"
    /\ pc = "done"
    /\ aggregated' = [p \in 1..Len(result[1]) |-> result[2][result[1][p]]]
    /\ fn' = "correlate_files_with_each_other"
    /\ pc' = "issues"
    /\ result' = <<>>
    /\ mpc' = "correlate"
    /\ UNCHANGED <<issuepos, fpos, gpos, known_files, known_files_to_index,
                   edges, weights, edgekeys, edgecounter, edgeindex, k, v, w,
                   aggvars, taskline, linkvars, args, disk, excluded,
                   include_issues, stdout, nodelist, edgelist, log, run, first>>

\* lines 267-278, after correlate_files_with_each_other has returned
PrintGraph ==
    /\ mpc = "correlate"
    /\ pc = "done"
    /\ LET nodes == NodeLines(result[1])
           edgetable == EdgeLines(result[2], result[3])
       IN  /\ stdout' = stdout
                        \o (IF args.output_nodelist = "" THEN nodes ELSE <<>>)
                        \o <<Dashes>>
                        \o (IF args.output_edgelist = "" THEN edgetable ELSE <<>>)
           /\ nodelist' = IF args.output_nodelist = "" THEN nodelist ELSE nodes
           /\ edgelist' = IF args.output_edgelist = "" THEN edgelist ELSE edgetable
    /\ mpc' = "returned"
    /\ fn' = "main"
    /\ pc' = "main"
    /\ UNCHANGED <<result, corrvars, aggvars, taskline, linkvars, args, disk,
                   excluded, include_issues, log, run, first>>

\* line 266: the KeyError of correlate_files_with_each_other ends main
RaiseKeyError ==
    /\ mpc = "correlate"
    /\ pc = "error"
    /\ mpc' = "raised"
    /\ fn' = "main"
    /\ pc' = "main"
    /\ UNCHANGED <<result, corrvars, aggvars, taskline, linkvars, args, disk,
                   excluded, include_issues, stdout, nodelist, edgelist, log,
                   run, first>>

\* line 280 without effect
NoCommandSilent(lg) == lg

\* logging.error("No command given. See %s --help", parser.prog)
NoCommandLog(lg) == Append(lg, "error: No command given")

\* lines 279-280
NoCommand ==
    /\ mpc = "command"
    /\ ~args.count_files_per_issue
    /\ ~args.sum_filesizes_per_issue
    /\ ~args.file_connections
    /\ log' = NoCommandLog(log)
    /\ mpc' = "returned"
    /\ UNCHANGED <<fn, pc, result, corrvars, aggvars, taskline, linkvars, args,
                   disk, excluded, include_issues, stdout, nodelist, edgelist,
                   run, first>>

\* what a run leaves behind: how main ended, the node ids, the graph, and
\* what it printed
Outcome ==
    <<mpc, known_files, known_files_to_index, result, stdout, nodelist, edgelist>>

\* the program is started a second time with the same command line on the
\* same files
Rerun ==
    /\ mpc \in {"returned", "raised"}
    /\ run = 1
    /\ first' = Outcome
    /\ run' = 2
    /\ fn' = "main"
    /\ pc' = "main"
    /\ result' = <<>>
    /\ mpc' = "exclude"
    /\ aggregated' = <<>>
    /\ issuepos' = 1
    /\ fpos' = 1
    /\ gpos' = 1
    /\ known_files' = <<>>
    /\ known_files_to_index' = EmptyDict
    /\ edges' = EmptyDict
    /\ weights' = EmptyDict
    /\ edgekeys' = <<>>
    /\ edgecounter' = EmptyDict
    /\ edgeindex' = EmptyDict
    /\ k' = 1
    /\ v' = EmptyDict
    /\ w' = EmptyDict
    /\ changes' = <<>>
    /\ cpos' = 1
    /\ issuedatelatest' = EmptyDict
    /\ mapped' = EmptyDict
    /\ mappedkeys' = <<>>
    /\ excluded' = {}
    /\ include_issues' = {}
    /\ stdout' = <<>>
    /\ nodelist' = <<>>
    /\ edgelist' = <<>>
    /\ log' = <<>>
    /\ UNCHANGED <<taskline, linkvars, args, disk>>

\* No todo line of these runs names more than 300 files, so SkipIssue is not
\* among the steps.
MainNext ==
    \/ ReadExclude
    \/ ReadIncludeIssues
    \/ ReadTodos
    \/ FilterIncluded
    \/ CountCommand
    \/ SumCommand
    \/ ConnectionsCommand
    \/ NoCommand
    \/ AggregateChange
    \/ AggregateReturn
    \/ SumChange
    \/ SumReturn
    \/ PrintCounts
    \/ PrintSums
    \/ Correlate
    \/ EnterIssue
    \/ BeginFile
    \/ Target
    \/ EndFile
    \/ EndIssue
    \/ EndIssues
    \/ SortNode
    \/ Return
    \/ PrintGraph
    \/ RaiseKeyError
    \/ Rerun

SpecMain == MainInit /\ [][MainNext]_vars

\* -------------------------------------- main of link_commits_to_issues.py
\* repoinfo["commit_uri_prefix"]
CommitUriPrefix == <<104, 47>>

\* the first n elements of a sequence, or all of them
Leading(s, n) == SubSeq(s, 1, IF Len(s) < n THEN Len(s) ELSE n)

\* process_taskline of link_commits_to_issues.py: (issue_id, url, title), or
\* "ValueError" when line 107 gets fewer than four fields
LinkProcessTaskline(line, commit_uri_prefix) ==
    LET fields == SplitMax(line, <<Space>>, 3)
    IN  IF Len(fields) # 4 THEN "ValueError"
        ELSE LET pieces == Split(fields[4], <<Dash, Dash, Dash>>)
                 shorttitle ==
                     IF Len(pieces[1]) < 20
                     THEN Join(<<Space, Dash, Space>>,
                               Leading(SelectSeq(pieces, LAMBDA i : Strip(i) # <<>>), 2))
                     ELSE pieces[1]
             IN  <<fields[2], commit_uri_prefix \o fields[1],
                   Join(<<Space>>, <<fields[3], Strip(shorttitle)>>)>>

\* lines 120-121: a title of more than 255 characters is cut
ShortenedTitle(title) ==
    IF Len(title) > 255 THEN SubSeq(title, 1, 251) \o <<Space, 46, 46, 46>> ELSE title

\* get_all_links, line 140: {i.object.url: i for i in links}, a link being
\* known by its position among the remote links of the issue
LinksByUrl(links) ==
    [u \in {links[p].url : p \in 1..Len(links)} |->
        CHOOSE p \in 1..Len(links) :
            /\ links[p].url = u
            /\ \A q \in (p + 1)..Len(links) : links[q].url # u]

\* the lru_cache of get_all_links after a call that returned
CacheWith(cache, server, issue_id) ==
    IF issue_id \in DOMAIN cache THEN cache
    ELSE cache @@ (issue_id :> LinksByUrl(server.links[issue_id]))

\* get_all_links raises JIRAError: the issue is not cached and the server
\* does not know it
LookupRaises(cache, server, issue_id) ==
    issue_id \notin DOMAIN cache /\ issue_id \notin server.known

\* create_a_link, lines 131-134, on the server: the cached link of the url
\* is updated, or a link is added
ServerAfterLink(server, links, issue_id, url, title) ==
    IF url \in DOMAIN links
    THEN [server EXCEPT
            !.links[issue_id][links[url]] = [url |-> url, title |-> title],
            !.calls = Append(@, <<"update", issue_id, url>>)]
    ELSE [server EXCEPT
            !.links[issue_id] = Append(@, [url |-> url, title |-> title]),
            !.calls = Append(@, <<"add", issue_id, url>>)]

\* f.write(taskline) also without --create-the-links
LogfileAfterAlways(lines, line, create_the_links) == Append(lines, line)

\* lines 206-208: f.write(taskline) under `if args.create_the_links`
LogfileAfter(lines, line, create_the_links) ==
    IF create_the_links THEN Append(lines, line) ELSE lines

\* The tasklines of the todo file: two commits of issue 1 and one of issue 2.
LinkEntries ==
    {[commit |-> <<7>>, issue |-> <<1>>, date |-> <<1, 0>>,
      message |-> <<3, Space, 4, Newline, Newline, 5, Newline>>, manifest |-> FALSE,
      files |-> <<>>, sizes |-> <<>>],
     [commit |-> <<8>>, issue |-> <<2>>, date |-> <<0, 9>>,
      message |-> <<3, Space, 4, Newline>>, manifest |-> FALSE,
      files |-> <<>>, sizes |-> <<>>],
     [commit |-> <<9>>, issue |-> <<1>>, date |-> <<0, 9>>,
      message |-> <<3, Newline>>, manifest |-> FALSE,
      files |-> <<>>, sizes |-> <<>>]}

LinkLines == {LineOf(e) : e \in LinkEntries}

LinkTodos == UNION {[1..n -> LinkLines] : n \in 0..MaxLines}

\* the command line: the logfile is the exclude file (the default) or a file
\* of its own
LinkArgs ==
    {[todofiles |-> <<"todo1">>, exclude_file |-> "finished_tasks.log",
      logfile_for_processed_tasks |-> l, create_the_links |-> c] :
        l \in {"finished_tasks.log", "processed.log"}, c \in BOOLEAN}

\* the exclude file: missing, or holding the taskline of commit 7
LinkExcludeDisks ==
    {EmptyDict,
     "finished_tasks.log" :>
         <<LineOf(CHOOSE e \in LinkEntries : e.commit = <<7>>)>>}

\* the Jira server: the issues it knows, their remote links (none, or on
\* issue 1 the link of commit 9), and the calls that changed a link
Servers ==
    {[known |-> kn, links |-> [i \in kn |-> <<>>], calls |-> <<>>] :
        kn \in SUBSET IssueIds}
    \cup
    {[known |-> kn,
      links |-> [i \in kn |->
                    IF i = <<1>>
                    THEN <<[url |-> CommitUriPrefix \o <<9>>, title |-> <<3>>]>>
                    ELSE <<>>],
      calls |-> <<>>] : kn \in {x \in SUBSET IssueIds : <<1>> \in x}}

LinkInit ==
    /\ fn = "main"
    /\ pc = "main"
    /\ result = <<>>
    /\ CorrIdle
    /\ AggIdle
    /\ ParseIdle
    /\ mpc = "exclude"
    /\ args \in LinkArgs
    /\ \E t \in LinkTodos, x \in LinkExcludeDisks : disk = ("todo1" :> t) @@ x
    /\ excluded = {}
    /\ include_issues = {}
    /\ stdout = <<>>
    /\ nodelist = <<>>
    /\ edgelist = <<>>
    /\ log = <<>>
    /\ run = 1
    /\ first = <<>>
    /\ tasklines = <<>>
    /\ tpos = 1
    /\ jira \in Servers
    /\ linkcache = EmptyDict

\* lines 162-166
LinkReadExclude ==
    /\ mpc = "exclude"
    /\ IF args.exclude_file \in DOMAIN disk
       THEN /\ excluded' = Range(disk[args.exclude_file])
            /\ log' = log
       ELSE /\ excluded' = {}
            /\ log' = Append(log, "warning: Exclude file not found")
    /\ mpc' = "todo"
    /\ UNCHANGED <<fn, pc, result, corrvars, aggvars, taskline, linkvars, args,
                   disk, include_issues, stdout, nodelist, edgelist, run, first>>

\* lines 167-170
LinkReadTodos ==
    /\ mpc = "todo"
    /\ tasklines' = NotExcluded(excluded, LinesOf(disk, args.todofiles))
    /\ mpc' = "open"
    /\ UNCHANGED <<fn, pc, result, corrvars, aggvars, taskline, tpos, jira,
                   linkcache, args, disk, excluded, include_issues, stdout,
                   nodelist, edgelist, log, run, first>>

\* lines 172-199: the login succeeds, and the logfile is opened for
\* appending, which creates it when it is missing
OpenLogfile ==
    /\ mpc = "open"
    /\ disk' = IF args.logfile_for_processed_tasks \in DOMAIN disk THEN disk
               ELSE disk @@ (args.logfile_for_processed_tasks :> <<>>)
    /\ tpos' = 1
    /\ mpc' = "loop"
    /\ UNCHANGED <<fn, pc, result, corrvars, aggvars, taskline, tasklines, jira,
                   linkcache, args, excluded, include_issues, stdout, nodelist,
                   edgelist, log, run, first>>

\* lines 201-205: get_all_links raises JIRAError, which is logged, and the
\* loop continues with the next taskline
LookupFails ==
    /\ mpc = "loop"
    /\ tpos <= Len(tasklines)
    /\ LET t == LinkProcessTaskline(tasklines[tpos], CommitUriPrefix)
       IN  /\ LookupRaises(linkcache, jira, t[1])
           /\ log' = Append(log, "error: JIRAError")
    /\ tpos' = tpos + 1
    /\ UNCHANGED <<fn, pc, result, corrvars, aggvars, taskline, tasklines, jira,
                   linkcache, mpc, args, disk, excluded, include_issues, stdout,
                   nodelist, edgelist, run, first>>

\* lines 201-214: one iteration of `for taskline in tasklines` in which
\* get_all_links returns.  With --create-the-links the link is updated or
\* added and the taskline is written to the logfile.
LinkTask ==
    /\ mpc = "loop"
    /\ tpos <= Len(tasklines)
    /\ LET t == LinkProcessTaskline(tasklines[tpos], CommitUriPrefix)
           cache == CacheWith(linkcache, jira, t[1])
       IN  /\ ~LookupRaises(linkcache, jira, t[1])
           /\ linkcache' = cache
           /\ jira' = IF args.create_the_links
                      THEN ServerAfterLink(jira, cache[t[1]], t[1], t[2],
                                           ShortenedTitle(t[3]))
                      ELSE jira
           /\ disk' = [disk EXCEPT ![args.logfile_for_processed_tasks] =
                          LogfileAfter(@, tasklines[tpos], args.create_the_links)]
           /\ log' = Append(log, IF args.create_the_links
                                 THEN "info: created link"
                                 ELSE "warning: Tryout mode!")
    /\ tpos' = tpos + 1
    /\ UNCHANGED <<fn, pc, result, corrvars, aggvars, taskline, tasklines, mpc,
                   args, excluded, include_issues, stdout, nodelist, edgelist,
                   run, first>>

\* line 207: the server refuses the update or the new link; the JIRAError of
\* create_a_link ends main
LinkRefused ==
    /\ mpc = "loop"
    /\ tpos <= Len(tasklines)
    /\ args.create_the_links
    /\ LET t == LinkProcessTaskline(tasklines[tpos], CommitUriPrefix)
       IN  /\ ~LookupRaises(linkcache, jira, t[1])
           /\ linkcache' = CacheWith(linkcache, jira, t[1])
    /\ result' = "JIRAError"
    /\ mpc' = "raised"
    /\ UNCHANGED <<fn, pc, corrvars, aggvars, taskline, tasklines, tpos, jira,
                   args, disk, excluded, include_issues, stdout, nodelist,
                   edgelist, log, run, first>>

\* lines 215-217: the loop is exhausted and the logfile is closed
LinkReturn ==
    /\ mpc = "loop"
    /\ tpos > Len(tasklines)
    /\ log' = IF args.create_the_links THEN Append(log, "info: created links")
              ELSE log
    /\ mpc' = "returned"
    /\ UNCHANGED <<fn, pc, result, corrvars, aggvars, taskline, linkvars, args,
                   disk, excluded, include_issues, stdout, nodelist, edgelist,
                   run, first>>

\* The program is started again with the same command line: a new process
\* with an empty lru_cache, on the files and the server as the run before
\* left them.
LinkRerun ==
    /\ mpc \in {"returned", "raised"}
    /\ run < MaxRuns
    /\ run' = run + 1
    /\ mpc' = "exclude"
    /\ result' = <<>>
    /\ excluded' = {}
    /\ tasklines' = <<>>
    /\ tpos' = 1
    /\ linkcache' = EmptyDict
    /\ log' = <<>>
    /\ UNCHANGED <<fn, pc, corrvars, aggvars, taskline, jira, args, disk,
                   include_issues, stdout, nodelist, edgelist, first>>

LinkNext ==
    \/ LinkReadExclude
    \/ LinkReadTodos
    \/ OpenLogfile
    \/ LookupFails
    \/ LinkTask
    \/ LinkRefused
    \/ LinkReturn
    \/ LinkRerun

SpecLink == LinkInit /\ [][LinkNext]_vars

\* ------------------------------------- properties of the returned graph
\* the ids that have an adjacency entry in the result
ResultNodes == {result[2][p][1] : p \in 1..Len(result[2])}

\* the neighbor ids and the weights returned for node i
Neighbors(i) == result[2][CHOOSE p \in 1..Len(result[2]) : result[2][p][1] = i][2]

WeightsOf(i) == result[3][CHOOSE p \in 1..Len(result[3]) : result[3][p][1] = i][2]

\* the weight at the position where the neighbor id of node i equals j
WeightTo(i, j) ==
    WeightsOf(i)[CHOOSE q \in 1..Len(Neighbors(i)) : Neighbors(i)[q] = j]

\* the filename with id i
FileOf(i) == known_files[i + 1]

FileIds == 0..(Len(known_files) - 1)

\* the number of retained issues whose file set contains every file of S
IssuesWith(S) ==
    Cardinality({n \in 1..Len(aggregated) :
                    /\ Len(aggregated[n]) <= Threshold
                    /\ S \subseteq Range(aggregated[n])})

\* C1: in the result, every (neighbor, weight) pair of a node is a pair that
\* was accumulated for that node before the final sort: for every node i and
\* position q, weights[i][q] is the weight accumulated for edge
\* (i, edges[i][q]).
C1_WeightsAligned ==
    pc = "done" =>
        \A i \in ResultNodes :
            /\ Len(WeightsOf(i)) = Len(Neighbors(i))
            /\ \A q \in 1..Len(Neighbors(i)) :
                   \E r \in 1..Len(v[i]) :
                       /\ v[i][r] = Neighbors(i)[q]
                       /\ w[i][r] = WeightsOf(i)[q]

\* C2: in the result, the weight at the position of the self-edge of file i
\* is the number of retained issues whose file set contains file i.
C2_SelfEdgeWeight ==
    pc = "done" =>
        \A i \in FileIds :
            /\ i \in ResultNodes
            /\ i \in Range(Neighbors(i))
            /\ WeightTo(i, i) = IssuesWith({FileOf(i)})

\* C3: in the result, for distinct file ids i and j, j is a neighbor of i
\* exactly when some retained issue contains both files, and the weight
\* reported for (i, j) is the number of retained issues containing both.
C3_PairWeight ==
    pc = "done" =>
        \A i \in FileIds : \A j \in FileIds \ {i} :
            /\ j \in Range(Neighbors(i)) <=> IssuesWith({FileOf(i), FileOf(j)}) >= 1
            /\ j \in Range(Neighbors(i)) =>
                   WeightTo(i, j) = IssuesWith({FileOf(i), FileOf(j)})

\* C4: the returned graph is symmetric: j is a neighbor of i exactly when i
\* is a neighbor of j, and the weights reported for (i, j) and (j, i) agree.
C4_Symmetric ==
    pc = "done" =>
        \A i \in ResultNodes : \A j \in ResultNodes :
            /\ j \in Range(Neighbors(i)) <=> i \in Range(Neighbors(j))
            /\ j \in Range(Neighbors(i)) => WeightTo(i, j) = WeightTo(j, i)

\* C5: on an input of sorted tuples of distinct filenames (of any length,
\* with any number of issues sharing a file) the function raises no error.
C5_NoError == pc # "error"

\* C6: while the issue being processed has more files than the threshold, no
\* step changes the file index, the edge lists or the weights; and every
\* registered file occurs in an issue that is not above the threshold.
C6_OnlyRetainedFiles ==
    /\ \A p \in 1..Len(known_files) :
           \E n \in 1..Len(aggregated) :
               /\ Len(aggregated[n]) <= Threshold
               /\ known_files[p] \in Range(aggregated[n])
    /\ pc = "done" => result[1] = known_files

C6_SkipStep ==
    (/\ pc \in {"issues", "files", "targets"}
     /\ issuepos <= Len(aggregated)
     /\ Len(aggregated[issuepos]) > Threshold)
    => UNCHANGED <<known_files, known_files_to_index, edges, weights, edgekeys>>

C6_SkippedIssueChangesNothing == []C6_OnlyRetainedFiles /\ [][C6_SkipStep]_vars

\* an issue above the threshold was passed and a graph was returned
C6_Witness ==
    /\ pc = "done"
    /\ Len(known_files) >= 2
    /\ \E n \in 1..Len(aggregated) : Len(aggregated[n]) > Threshold

\* the concatenation of the file tuples of the retained issues among the
\* first n
RECURSIVE RetainedFiles(_)
RetainedFiles(n) ==
    IF n = 0 THEN <<>>
    ELSE RetainedFiles(n - 1) \o
         (IF Len(aggregated[n]) <= Threshold THEN aggregated[n] ELSE <<>>)

\* the filenames the loops have come across so far, in that order: in the
\* first iteration of `for f in files` the files up to g, afterwards all
\* files of the issue
Encountered ==
    RetainedFiles(issuepos - 1) \o
    (IF pc = "files" /\ fpos > 1 THEN aggregated[issuepos]
     ELSE IF pc = "targets" /\ fpos > 1 THEN aggregated[issuepos]
     ELSE IF pc = "targets"
          THEN SubSeq(aggregated[issuepos], 1, IF gpos > 2 THEN gpos - 1 ELSE 1)
     ELSE <<>>)

\* C7: at every point the known filenames are pairwise distinct and listed
\* in the order they were first encountered in retained issues, the id of
\* the p-th of them is p - 1 (so the ids are 0..n-1), and no step removes a
\* filename or changes the id of a known one.
C7_IndexBijection ==
    /\ known_files = FirstSeen(Encountered)
    /\ Cardinality(Range(known_files)) = Len(known_files)
    /\ DOMAIN known_files_to_index = Range(known_files)
    /\ \A p \in 1..Len(known_files) : known_files_to_index[known_files[p]] = p - 1

C7_AppendOnly ==
    /\ Len(known_files') >= Len(known_files)
    /\ SubSeq(known_files', 1, Len(known_files)) = known_files
    /\ \A f \in DOMAIN known_files_to_index :
           /\ f \in DOMAIN known_files_to_index'
           /\ known_files_to_index'[f] = known_files_to_index[f]

C7_FileIndexAppendOnlyBijection == []C7_IndexBijection /\ [][C7_AppendOnly]_vars

\* a later issue brought a file that sorts before the known ones, and a file
\* known already
C7_Witness ==
    /\ pc = "done"
    /\ Len(aggregated) = 2
    /\ Len(known_files) = 3
    /\ LexLess(known_files[3], known_files[1])
    /\ Range(aggregated[1]) \cap Range(aggregated[2]) # {}

\* ------------------------------------- properties of the aggregation
IssuesIn == {changes[n][1] : n \in 1..Len(changes)}

RecordsOf(id) == {n \in 1..Len(changes) : changes[n][1] = id}

HasSuffix(s, t) ==
    /\ Len(s) >= Len(t)
    /\ SubSeq(s, Len(s) - Len(t) + 1, Len(s)) = t

\* the greatest date among the records of an issue
MaxDate(id) ==
    CHOOSE d \in {changes[n][2] : n \in RecordsOf(id)} :
        \A n \in RecordsOf(id) : ~LexLess(d, changes[n][2])

\* the keys of the returned dict or list of pairs
ResultKeys ==
    IF fn = "aggregate_files_per_issue" THEN DOMAIN result[2]
    ELSE {result[p][1] : p \in 1..Len(result)}

\* C8: aggregate_files_per_issue returns exactly one entry per distinct
\* issue id, whose tuple holds exactly the files of the records of that
\* issue, strictly ascending (each file once).
C8_AggregateIsSortedUnion ==
    (pc = "done" /\ fn = "aggregate_files_per_issue") =>
        /\ Len(result[1]) = Cardinality(IssuesIn)
        /\ Range(result[1]) = DOMAIN result[2]
        /\ Cardinality(DOMAIN result[2]) = Cardinality(IssuesIn)
        /\ \A id \in IssuesIn :
               \E key \in DOMAIN result[2] :
                   /\ HasSuffix(key, <<Colon>> \o id)
                   /\ Range(result[2][key]) =
                          UNION {Range(changes[n][3]) : n \in RecordsOf(id)}
                   /\ \A p \in 1..(Len(result[2][key]) - 1) :
                          LexLess(result[2][key][p], result[2][key][p + 1])

\* two records of one issue share a file and each has a file of its own
C8_Witness ==
    /\ pc = "done"
    /\ fn = "aggregate_files_per_issue"
    /\ \E n, m \in 1..Len(changes) :
           /\ n # m
           /\ changes[n][1] = changes[m][1]
           /\ Range(changes[n][3]) \cap Range(changes[m][3]) # {}
           /\ Range(changes[n][3]) # Range(changes[m][3])

\* C9: in both functions the keys of the result are, for each issue id, the
\* greatest date of its records, a colon, and the issue id.
C9_KeyHasLatestDate ==
    pc = "done" =>
        ResultKeys = {MaxDate(id) \o <<Colon>> \o id : id \in IssuesIn}

\* the later record of an issue has the earlier date
C9_Witness ==
    /\ pc = "done"
    /\ \E n, m \in 1..Len(changes) :
           /\ n < m
           /\ changes[n][1] = changes[m][1]
           /\ LexLess(changes[m][2], changes[n][2])

\* the sum of all sizes of the records of an issue among the first n
RECURSIVE SizesTotal(_, _)
SizesTotal(id, n) ==
    IF n = 0 THEN 0
    ELSE SizesTotal(id, n - 1) +
         (IF changes[n][1] = id THEN SumOf(changes[n][4]) ELSE 0)

\* C10: sum_filesizes_per_issue returns one pair per issue id, holding the
\* sum of all sizes of all records of the issue (a file in two records
\* counts twice), as a list strictly ascending by composite key.
C10_SumOfAllSizes ==
    (pc = "done" /\ fn = "sum_filesizes_per_issue") =>
        /\ Len(result) = Cardinality(IssuesIn)
        /\ \A p \in 1..(Len(result) - 1) : LexLess(result[p][1], result[p + 1][1])
        /\ \A id \in IssuesIn :
               \E p \in 1..Len(result) :
                   /\ HasSuffix(result[p][1], <<Colon>> \o id)
                   /\ result[p][2] = SizesTotal(id, Len(changes))

\* a file is in two records of one issue, and the result holds both sizes
C10_Witness ==
    /\ pc = "done"
    /\ fn = "sum_filesizes_per_issue"
    /\ Len(result) = 1
    /\ result[1][2] >= 2
    /\ \E n, m \in 1..Len(changes) :
           /\ n # m
           /\ changes[n][1] = changes[m][1]
           /\ Range(changes[n][3]) \cap Range(changes[m][3]) # {}

\* ------------------------------------------ properties of process_taskline
HasChar(s, c) == \E p \in 1..Len(s) : s[p] = c

\* the entry's filenames hold no ":" (the delimiter of the manifest)
ColonFree(e) == \A p \in 1..Len(e.files) : ~HasChar(e.files[p], Colon)

Parsed == fn = "process_taskline" /\ pc # "taskline"

\* C12: for the line written from an entry with a manifest whose filenames
\* hold no ":", process_taskline returns the entry's issue id and date, and
\* the entry's filenames (commas included) and sizes, paired by position.
C12_ManifestRoundTrip ==
    \A e \in Entries :
        (/\ Parsed
         /\ e.manifest
         /\ ColonFree(e)
         /\ taskline = LineOf(e))
        => /\ pc = "done"
           /\ result = <<e.issue, e.date, e.files, e.sizes>>

C12_Witness ==
    /\ Parsed
    /\ pc = "done"
    /\ Len(result[3]) = 2
    /\ HasChar(result[3][1], Comma)
    /\ result[4] = <<12, 0>>

\* C13: when the size of a manifest entry fails integer parsing,
\* process_taskline returns every filename of the manifest and as many
\* sizes, all 0.
C13_ParseFailureKeepsFiles ==
    \A e \in Entries :
        (/\ Parsed
         /\ e.manifest
         /\ taskline = LineOf(e)
         /\ SizeParseFails(taskline))
        => /\ pc = "done"
           /\ result[3] = e.files
           /\ result[4] = [p \in 1..Len(e.files) |-> 0]

\* C14: process_taskline returns for a line with a manifest the manifest's
\* files, and for a line without one the issue id and the date with no
\* files, and does not raise.
C14_BothShapes ==
    \A e \in Entries :
        (/\ Parsed
         /\ taskline = LineOf(e)
         /\ ColonFree(e))
        => /\ pc = "done"
           /\ result[1] = e.issue
           /\ result[2] = e.date
           /\ result[3] = e.files

\* ---------------------------------------------------- properties of main
CountSelected == args.count_files_per_issue

SumSelected == ~args.count_files_per_issue /\ args.sum_filesizes_per_issue

ConnectionsSelected ==
    /\ ~args.count_files_per_issue
    /\ ~args.sum_filesizes_per_issue
    /\ args.file_connections

NoneSelected ==
    /\ ~args.count_files_per_issue
    /\ ~args.sum_filesizes_per_issue
    /\ ~args.file_connections

\* the files of all records of an issue
FilesOfIssue(id) == UNION {Range(changes[n][3]) : n \in RecordsOf(id)}

\* the composite key of an output line: the text before its blank
KeyOfLine(line) == SplitMax(line, <<Space>>, 1)[1]

\* C11: with the count or the sum command main prints one line per distinct
\* issue id of the processed records, "<latest date>:<issue> <integer>", the
\* integer of the count command being the number of distinct files of the
\* issue, and the lines ascend by the composite key.
C11_SortedLinePerIssue ==
    (mpc = "returned" /\ (CountSelected \/ SumSelected)) =>
        /\ Len(stdout) = Cardinality(IssuesIn)
        /\ \A id \in IssuesIn :
              \E p \in 1..Len(stdout) :
                  stdout[p] = MaxDate(id) \o <<Colon>> \o id \o <<Space>> \o
                              StrOf(IF CountSelected
                                    THEN Cardinality(FilesOfIssue(id))
                                    ELSE SizesTotal(id, Len(changes)))
        /\ \A p \in 1..(Len(stdout) - 1) :
              LexLess(KeyOfLine(stdout[p]), KeyOfLine(stdout[p + 1]))

\* the count command has printed two issues, the issue of the first record
\* last
C11_Witness ==
    /\ mpc = "returned"
    /\ CountSelected
    /\ Len(stdout) = 2
    /\ Len(changes) = 2
    /\ stdout[2] = MaxDate(changes[1][1]) \o <<Colon>> \o changes[1][1]
                   \o <<Space>> \o StrOf(2)

\* main is past the filter of lines 245-250
PastFilter ==
    mpc \in {"command", "count", "sum", "aggregate", "correlate", "returned"}
    \/ (mpc = "raised" /\ result = "KeyError")

\* the lines of the exclude file
ExcludeLines ==
    IF args.exclude_file \in DOMAIN disk THEN Range(disk[args.exclude_file]) ELSE {}

\* the lines of the todo files that are no line of the exclude file
KeptLines ==
    SelectSeq(LinesOf(disk, args.todofiles), LAMBDA l : l \notin ExcludeLines)

KeptRecords == [p \in 1..Len(KeptLines) |-> ProcessTaskline(KeptLines[p])]

\* C15: when the include-issues file is named and missing, main logs a
\* warning and processes every record that was not excluded.
C15_MissingIncludeFileUnfiltered ==
    (/\ PastFilter
     /\ args.include_issues_file # ""
     /\ args.include_issues_file \notin DOMAIN disk)
    => /\ "warning: Include issues file not found" \in Range(log)
       /\ changes = KeptRecords

\* C16: the records main processes after lines 239-243 are those of the todo
\* lines that equal no line of the exclude file, in order; all of them when
\* the exclude file is missing.  Without an include-issues file these are
\* the records of the output.
C16_ExcludedByWholeLine ==
    /\ mpc \notin {"none", "exclude"} =>
          excluded = ExcludeLines
    /\ (mpc = "filter" \/ (PastFilter /\ args.include_issues_file = "")) =>
          changes = KeptRecords

\* one of two todo lines is excluded, the other differs from a line of the
\* exclude file in its end only
C16_Witness ==
    /\ mpc = "returned"
    /\ args.include_issues_file = ""
    /\ Cardinality(ExcludeLines) = 2
    /\ Len(LinesOf(disk, args.todofiles)) = 2
    /\ Len(changes) = 1
    /\ \E l \in ExcludeLines : l \o <<Newline>> = KeptLines[1]

\* C17: with none of the three commands main prints no line to standard
\* output or to an output file, and it ends having logged an error.
C17_NoCommandNoOutput ==
    (mpc # "none" /\ NoneSelected) =>
        /\ stdout = <<>>
        /\ nodelist = <<>>
        /\ edgelist = <<>>
        /\ mpc = "returned" => "error: No command given" \in Range(log)

C17_Witness ==
    /\ mpc = "returned"
    /\ NoneSelected
    /\ Len(changes) = 2

\* C18: a second run on the same command line and files ends as the first
\* did, with the same node id of every filename, the same edge and weight
\* sequences and the same printed node and edge tables.
C18_Deterministic ==
    (run = 2 /\ mpc \in {"returned", "raised"}) =>
        /\ first[1] = mpc
        /\ first[2] = known_files
        /\ first[3] = known_files_to_index
        /\ first[4] = result
        /\ first[5] = stdout
        /\ first[6] = nodelist
        /\ first[7] = edgelist

\* the second run has written the tables of a graph of three files
C18_Witness ==
    /\ run = 2
    /\ mpc = "returned"
    /\ ConnectionsSelected
    /\ Len(known_files) = 3
    /\ Len(nodelist) = 4
    /\ Len(stdout) > 2

\* the three numbers of a line of the edge table
TripleOf(line) ==
    LET parts == Split(line, <<Space>>)
    IN  <<IntOf(parts[1]), IntOf(parts[2]), IntOf(parts[3])>>

\* the tables main has printed, given the position of "------" in stdout
NodeTable(d) == IF args.output_nodelist = "" THEN SubSeq(stdout, 1, d - 1) ELSE nodelist

EdgeTable(d) ==
    IF args.output_edgelist = "" THEN SubSeq(stdout, d + 1, Len(stdout)) ELSE edgelist

TablesAsStored(d) ==
    LET nodes == NodeTable(d)
        table == EdgeTable(d)
        triples == [q \in 1..(Len(table) - 1) |-> TripleOf(table[q + 1])]
    IN  /\ Len(nodes) = Len(known_files) + 1
        /\ nodes[1] = IdLabel
        /\ \A i \in 1..Len(known_files) :
              nodes[i + 1] = StrOf(i - 1) \o <<Space>> \o known_files[i]
        /\ Len(table) >= 1
        /\ table[1] = SourceTargetWeight
        /\ \A q \in 1..(Len(triples) - 1) :
              \/ triples[q][1] < triples[q + 1][1]
              \/ /\ triples[q][1] = triples[q + 1][1]
                 /\ triples[q][2] < triples[q + 1][2]
        /\ \A s \in DOMAIN edges :
              \A p \in 1..Len(edges[s]) :
                  \E q \in 1..Len(triples) :
                      triples[q] = <<s, edges[s][p], weights[s][p]>>
        /\ \A q \in 1..Len(triples) :
              \E p \in 1..Len(edges[triples[q][1]]) :
                  /\ edges[triples[q][1]][p] = triples[q][2]
                  /\ weights[triples[q][1]][p] = triples[q][3]

\* C19: with the file-connections command main prints the node table, one
\* line per file id from 0 on with the filename of the id, and the edge
\* table, one line per stored edge, ascending by source and then by target,
\* with the weight stored at the position of the target.
C19_Tables ==
    (/\ ConnectionsSelected
     /\ \/ mpc = "returned"
        \/ (mpc = "raised" /\ result = "KeyError"))
    => \E d \in 1..Len(stdout) :
          /\ stdout[d] = Dashes
          /\ TablesAsStored(d)

\* ----------------------- properties of main of link_commits_to_issues.py
\* the lines of the logfile on a disk
LogfileLines(d) ==
    IF args.logfile_for_processed_tasks \in DOMAIN d
    THEN d[args.logfile_for_processed_tasks]
    ELSE <<>>

\* a step that adds a line to the logfile, and one in which the server
\* updates or adds a link
Appends == LogfileLines(disk') # LogfileLines(disk)

Links == jira' # jira

\* a step in which the lookup of the links raised JIRAError
LookupRaised == log' = Append(log, "error: JIRAError")

C20_Step ==
    /\ Appends <=> Links
    /\ Appends =>
          /\ mpc = "loop"
          /\ args.create_the_links
          /\ LogfileLines(disk') = Append(LogfileLines(disk), tasklines[tpos])
          /\ Len(jira'.calls) = Len(jira.calls) + 1
          /\ jira'.calls[Len(jira'.calls)][2] = SplitMax(tasklines[tpos], <<Space>>, 3)[2]
          /\ tpos' = tpos + 1
    /\ LookupRaised =>
          /\ ~Appends
          /\ ~Links
          /\ mpc' = "loop"
          /\ tpos' = tpos + 1

\* C20: a taskline is appended to the logfile in exactly the steps in which
\* a remote link is updated or added for it, which happens only with
\* --create-the-links; after a lookup that raised JIRAError nothing is linked
\* or appended and the loop goes on with the next taskline.
C20_LoggedIffLinked == [][C20_Step]_vars

\* a run that skipped its first taskline after a JIRAError and linked and
\* logged its second
C20_Witness ==
    /\ mpc = "returned"
    /\ tasklines # <<>>
    /\ Len(tasklines) = 2
    /\ Len(log) >= 2
    /\ \E p \in 1..Len(log) : log[p] = "error: JIRAError"
    /\ Len(jira.calls) = 1
    /\ LogfileLines(disk) # <<>>
    /\ LogfileLines(disk)[Len(LogfileLines(disk))] = tasklines[2]

\* C21: with --create-the-links and the logfile as exclude file, no issue
\* ever has two remote links with the same url, whatever the runs so far.
C21_NoDuplicateLinks ==
    (/\ mpc # "none"
     /\ args.create_the_links
     /\ args.logfile_for_processed_tasks = args.exclude_file)
    => \A i \in jira.known :
          \A p, q \in 1..Len(jira.links[i]) :
              p # q => jira.links[i][p].url # jira.links[i][q].url

\* ------------------------------------------ properties of the accumulation
\* the retained issues among the first n that hold the files with ids f and g
ProcessedWith(n, f, g) ==
    {i \in 1..n : /\ ~SkipsIssue(aggregated[i])
                  /\ FileOf(f) \in Range(aggregated[i])
                  /\ FileOf(g) \in Range(aggregated[i])}

\* C22: between two issues, before the final sort, weights[f][k] is the
\* number of retained issues processed so far that hold both the file f and
\* the file edges[f][k] (the file tuples of the issues have distinct
\* elements).
C22_WeightsCountProcessedIssues ==
    (fn = "correlate_files_with_each_other" /\ pc = "issues") =>
        \A f \in DOMAIN edges :
            /\ Len(weights[f]) = Len(edges[f])
            /\ \A p \in 1..Len(edges[f]) :
                  weights[f][p] =
                      Cardinality(ProcessedWith(issuepos - 1, f, edges[f][p]))

\* two issues are processed; a node has an edge of weight 2 and one of
\* weight 1
C22_Witness ==
    /\ fn = "correlate_files_with_each_other"
    /\ pc = "issues"
    /\ issuepos = 3
    /\ \E f \in DOMAIN edges :
          \E p, q \in 1..Len(edges[f]) :
              weights[f][p] = 2 /\ weights[f][q] = 1

\* C23: the returned graph is well-formed: each file id 0..n-1 has one
\* entry in the edges and one in the weights; the neighbors of a node ascend
\* strictly, are as many as its weights, include the node and are ids below
\* n; every weight is at least 1.
C23_WellFormedResult ==
    (fn = "correlate_files_with_each_other" /\ pc = "done") =>
        LET n == Len(result[1])
        IN  /\ Len(result[2]) = n
            /\ Len(result[3]) = n
            /\ \A i \in 0..(n - 1) :
                  /\ Cardinality({p \in 1..n : result[2][p][1] = i}) = 1
                  /\ Cardinality({p \in 1..n : result[3][p][1] = i}) = 1
            /\ \A i \in 0..(n - 1) :
                  /\ \A p \in 1..(Len(Neighbors(i)) - 1) :
                        Neighbors(i)[p] < Neighbors(i)[p + 1]
                  /\ Len(Neighbors(i)) = Len(WeightsOf(i))
                  /\ i \in Range(Neighbors(i))
                  /\ Range(Neighbors(i)) \subseteq 0..(n - 1)
                  /\ \A p \in 1..Len(WeightsOf(i)) : WeightsOf(i)[p] >= 1

\* a returned graph of three files in which a node was given a neighbor
\* with a smaller id after one with a greater id
C23_Witness ==
    /\ fn = "correlate_files_with_each_other"
    /\ pc = "done"
    /\ Len(result[1]) = 3
    /\ \E key \in DOMAIN v :
          \E p \in 1..(Len(v[key]) - 1) : v[key][p] > v[key][p + 1]

\* ------------------------------------------- properties of malformed lines
\* fewer than three fields before the rest of the line: fewer than three
\* blanks
TooFewFields(line) == Cardinality({p \in 1..Len(line) : line[p] = Space}) < 3

\* C24: when a todo line that is not excluded has fewer than three leading
\* fields, main ends with the ValueError of process_taskline and prints
\* nothing to standard output or to an output file.
C24_MalformedLineRaises ==
    (/\ mpc \notin {"none", "exclude", "include", "todo"}
     /\ \E p \in 1..Len(KeptLines) : TooFewFields(KeptLines[p]))
    => /\ mpc = "raised"
       /\ result = "ValueError"
       /\ stdout = <<>>
       /\ nodelist = <<>>
       /\ edgelist = <<>>

\* main has ended on an empty line that follows a line with a manifest
C24_Witness ==
    /\ mpc = "raised"
    /\ result = "ValueError"
    /\ Len(KeptLines) = 2
    /\ ~ProcessTasklineRaises(KeptLines[1])
    /\ KeptLines[2] = <<Newline>>
    /\ TooFewFields(KeptLines[2])

=============================================================================
